---- MODULE Spec2Model ----
(***************************************************************************)
(* Model of fitting_scripts/sps_fitsetup.py: the parameter table built by  *)
(* initial_dataframe and expanded by update_components / minmaxlim, and   *)
(* the line detection and continuum mask of analyze_emission_lines.       *)
(*                                                                         *)
(* Real numbers of the table are fixed-point integers: a value v of the   *)
(* program is stored as v * K.  K is a multiple of 100 * 100 * 2, so the   *)
(* products by 1.11 and by 1.5 that the code nests (at most 1.11 * 1.5 *   *)
(* 1.11) and the halvings of an amplitude are exact.                       *)
(***************************************************************************)
EXTENDS Integers, Sequences, FiniteSets, TLC

VARIABLES
    emlines_dict,       \* catalog: line name -> component model
    filtered_linelist,  \* output of filter_and_prepare_linelist (sequence of line details)
    continuum_pars,     \* None (<<>>) or the three continuum parameters
    dfparams,           \* the parameter table: sequence of rows
    hasErrors,          \* the table carries the column 'Parameter Errors'
    pc,                 \* "start", or the last call: "built", "fitted", "updated"
    error,              \* exception raised by the last call, "none" if it returned
    inputdf,            \* the table handed to the last update_components call
    additions,          \* the additional_components_dict of that call, in iteration order
    printed,            \* what the last call printed
    x,                  \* observed_wavelengths of the spectrum
    y,                  \* flux of the spectrum
    lines_dict,         \* catalog entries in iteration order: name and rest wavelength
    matched_lines,      \* analyze_emission_lines: the detected lines
    results,            \* analyze_emission_lines: the lines with their fwhm
    continuum_mask,     \* analyze_emission_lines: TRUE where a sample is continuum
    synthetic_flux,     \* analyze_emission_lines: flux with the line windows replaced
    dpc,                \* position in analyze_emission_lines: "idle", "match", "mask", "done"
    pos,                \* index of the loop at dpc
    line_results,       \* filter_and_prepare_linelist: the lines to filter
    continuum_spec0,    \* the continuum spectrum: sequence of <<wavelength, flux>>
    wavelength_range,   \* <<min_wavelength, max_wavelength>>
    snr_ext,            \* the noise threshold
    fpc,                \* position in filter_and_prepare_linelist: "idle", "loop", "done"
    fpos,               \* index of its loop over line_results
    stage,              \* init_setup: the statement it is at
    calls               \* init_setup: the calls made so far, in order

fvars == <<line_results, continuum_spec0, wavelength_range, snr_ext, fpc, fpos>>

svars == <<stage, calls>>

dvars == <<x, y, lines_dict, matched_lines, results, continuum_mask, synthetic_flux, dpc, pos>>

tvars == <<emlines_dict, filtered_linelist, continuum_pars, dfparams, hasErrors,
           pc, error, inputdf, additions, printed>>

vars == <<tvars, dvars, fvars, svars>>

----------------------------------------------------------------------------
(* Fixed-point arithmetic *)

K == 100 * 100 * 2
Inf == 2000000000
None == <<>>

Times111(v) == (v \div 100) * 111     \* 1.11 * v
Times15(v) == (v \div 2) * 3          \* 1.5 * v
Half(v) == v \div 2                   \* v / 2

RECURSIVE Pow2(_)
Pow2(n) == IF n <= 0 THEN 1 ELSE 2 * Pow2(n - 1)

----------------------------------------------------------------------------
(* Bounds of the model *)

MaxComponent == 3       \* a line is expanded up to this component index
NSamples == 6           \* samples of the spectrum

LineNames == <<"Ha", "Hb">>                  \* catalog keys, in iteration order
KnownModels == {"Gaussian", "Lorentzian", "Voigt", "Continuum"}
\* the component model of each catalog entry; "Asymmetric Gaussian" is a
\* model that spl_plot knows and the table code does not
CatalogModels ==
    [Ha |-> {"Gaussian", "Lorentzian", "Voigt", "Asymmetric Gaussian"},
     Hb |-> {"Lorentzian", "Asymmetric Gaussian"}]
\* the lines an expansion may name and the models it may request for each;
\* "OIII" is in no table
AdditionNames == {"Ha", "Hb", "OIII"}
RequestModels ==
    [Ha |-> {"Voigt", "Asymmetric Gaussian"},
     Hb |-> {"Gaussian"},
     OIII |-> {"Gaussian"}]
Wavelength == [Ha |-> 30, Hb |-> 12]
\* sigma and peak flux of the filtered lines: no line, one narrow line
\* (sigma = 1 is below min_sd = 2.0), two lines
LineInputs == {<<>>,
               <<[name |-> "Ha", sigma |-> 1, flux |-> 4]>>,
               <<[name |-> "Ha", sigma |-> 3, flux |-> 4],
                 [name |-> "Hb", sigma |-> 3, flux |-> 8]>>}
FitSigma == 2 * 2                            \* a best-fit width of the first row
ContinuumChoices == {None, <<0 - K, 12 * K, 2 * K>>}
\* two sorted wavelength grids, the second with a repeated wavelength
Grids == {[i \in 1..NSamples |-> 95 + 5 * i],
          [i \in 1..NSamples |-> IF i >= 4 THEN 90 + 5 * i ELSE 95 + 5 * i]}
FluxValues == {0, 2, 8}                      \* 0, 0.5 and 2.0
\* the lines handed to the filter, by sigma_max: one on the first sample
\* (no sample to its left), one inside, and a second line
ResultChoices ==
    LET first == {[line |-> "Ha", observed_wavelength |-> 100, sigma_max |-> 1, peak_flux |-> 1]}
                 \cup {[line |-> "Ha", observed_wavelength |-> 115, sigma_max |-> 1,
                        peak_flux |-> f] : f \in {1, 4}}
        second == {[line |-> "Hb", observed_wavelength |-> 105, sigma_max |-> 1,
                    peak_flux |-> f] : f \in {2, 7}}
    IN {<<>>} \cup {<<a>> : a \in first} \cup {<<a, b>> : a \in first, b \in second}
ContinuumFluxes == {0, 1, 3}
Thresholds == {0, 1, 2}
RangeChoices == {<<100, 130>>, <<110, 130>>}
\* rest wavelengths of the two catalog entries: far below the coverage, just
\* below it, inside it, just above it
RestChoices == [Ha |-> {60, 95, 115}, Hb |-> {95, 120, 135}]

----------------------------------------------------------------------------
(* filter_and_prepare_linelist: the details of a line that passed *)

line_details(name, wl, sig, flux) ==
    [name |-> name,
     wavelength |-> wl * K,
     sigma |-> sig * K,
     min_loc |-> wl * K - 2 * (sig * K),
     max_loc |-> wl * K + 2 * (sig * K),
     min_sd |-> 2 * K,
     max_sd |-> Times15(sig * K),
     max_flux |-> flux * K]

----------------------------------------------------------------------------
(* initial_dataframe *)

\* params_i, max_i, min_i before the first assignment
Unbound == [bound |-> FALSE, params |-> <<>>, max |-> <<>>, min |-> <<>>]

\* variant: the Lorentzian lower width limit is min_sd, not 1.11 * min_sd
ComponentVectors_PlainMinSd(line, component) ==
    IF component = "Voigt" THEN
        [bound |-> TRUE, params |-> <<line.wavelength, line.max_flux, line.sigma, Times111(line.sigma)>>,
         max |-> <<line.max_loc, line.max_flux, line.max_sd, Times111(line.max_sd)>>,
         min |-> <<line.min_loc, 0, line.min_sd, Times111(line.min_sd)>>]
    ELSE IF component = "Gaussian" THEN
        [bound |-> TRUE, params |-> <<line.wavelength, line.max_flux, line.sigma>>,
         max |-> <<line.max_loc, line.max_flux, line.max_sd>>,
         min |-> <<line.min_loc, 0, line.min_sd>>]
    ELSE IF component = "Lorentzian" THEN
        [bound |-> TRUE, params |-> <<line.wavelength, line.max_flux, Times111(line.sigma)>>,
         max |-> <<line.max_loc, line.max_flux, Times111(line.max_sd)>>,
         min |-> <<line.min_loc, 0, line.min_sd>>]
    ELSE Unbound

\* the three vectors of one component; Unbound when no branch of the if/elif
\* chain matches (params_i, max_i, min_i are then left as they were)
ComponentVectors(line, component) ==
    IF component = "Voigt" THEN
        [bound |-> TRUE, params |-> <<line.wavelength, line.max_flux, line.sigma, Times111(line.sigma)>>,
         max |-> <<line.max_loc, line.max_flux, line.max_sd, Times111(line.max_sd)>>,
         min |-> <<line.min_loc, 0, line.min_sd, Times111(line.min_sd)>>]
    ELSE IF component = "Gaussian" THEN
        [bound |-> TRUE, params |-> <<line.wavelength, line.max_flux, line.sigma>>,
         max |-> <<line.max_loc, line.max_flux, line.max_sd>>,
         min |-> <<line.min_loc, 0, line.min_sd>>]
    ELSE IF component = "Lorentzian" THEN
        [bound |-> TRUE, params |-> <<line.wavelength, line.max_flux, Times111(line.sigma)>>,
         max |-> <<line.max_loc, line.max_flux, Times111(line.max_sd)>>,
         min |-> <<line.min_loc, 0, Times111(line.min_sd)>>]
    ELSE Unbound

Row(name, model, comp, pars, maxl, minl) ==
    [name |-> name, model |-> model, comp |-> comp,
     pars |-> pars, maxl |-> maxl, minl |-> minl]

\* the loop over filtered_linelist; carry holds params_i, max_i, min_i of the
\* previous iteration
RECURSIVE LineRows(_, _, _, _)
LineRows(catalog, lines, carry, acc) ==
    IF lines = <<>> THEN [ok |-> TRUE, rows |-> acc]
    ELSE LET line == Head(lines)
             component == catalog[line.name]
             v == ComponentVectors(line, component)
             cur == IF v.bound THEN v ELSE carry
         IN IF ~cur.bound THEN [ok |-> FALSE, rows |-> acc]   \* UnboundLocalError
            ELSE LineRows(catalog, Tail(lines), cur,
                          Append(acc, Row(line.name, component, 1,
                                          cur.params, cur.max, cur.min)))

ContinuumRow(cpars) ==
    Row("Continuum", "Continuum", 0, cpars, <<Inf, Inf, Inf>>, <<0, 0, 0>>)

\* variant: the continuum row is put first
initial_dataframe_ContinuumFirst(catalog, lines, cpars) ==
    LET r == LineRows(catalog, lines, Unbound, <<>>)
    IN IF ~r.ok THEN r
       ELSE IF cpars # None THEN [ok |-> TRUE, rows |-> <<ContinuumRow(cpars)>> \o r.rows]
       ELSE r

initial_dataframe(catalog, lines, cpars) ==
    LET r == LineRows(catalog, lines, Unbound, <<>>)
    IN IF ~r.ok THEN r
       ELSE IF cpars # None THEN [ok |-> TRUE, rows |-> Append(r.rows, ContinuumRow(cpars))]
       ELSE r

----------------------------------------------------------------------------
(* minmaxlim *)

NameCount(df, name) == Cardinality({i \in 1..Len(df) : df[i].name = name})

\* variant: the factor of a later component is 2^index, not 2^(index - 1)
AmplitudeCeiling_OffByOne(df, row) ==
    LET amplitude == row.pars[2]
        ncomp == row.comp
    IN IF ncomp = 1 THEN
           IF NameCount(df, row.name) > 1 THEN amplitude * 2 ELSE amplitude
       ELSE IF ncomp = 2 THEN amplitude * 2
       ELSE IF ncomp >= 1 THEN amplitude * Pow2(ncomp)
       ELSE Half(amplitude)

\* amplitude * amplitude_factor
AmplitudeCeiling(df, row) ==
    LET amplitude == row.pars[2]
        ncomp == row.comp
    IN IF ncomp = 1 THEN
           IF NameCount(df, row.name) > 1 THEN amplitude * 2 ELSE amplitude
       ELSE IF ncomp = 2 THEN amplitude * 2
       ELSE IF ncomp >= 1 THEN amplitude * Pow2(ncomp - 1)
       ELSE Half(amplitude)                                   \* 2**(0 - 1)

\* max_i, min_i of one row; Unbound when the model matches no branch
RowLimits(df, row) ==
    LET sigma == row.pars[3]
        minsig == 2 * K
        maxsig == Times15(sigma)
        line_wavelength == row.pars[1]
        min_line == line_wavelength - 2 * sigma
        max_line == line_wavelength + 2 * sigma
        amp == AmplitudeCeiling(df, row)
    IN IF row.model = "Gaussian" THEN
           [bound |-> TRUE, max |-> <<max_line, amp, maxsig>>,
            min |-> <<min_line, 0, minsig>>]
       ELSE IF row.model = "Lorentzian" THEN
           [bound |-> TRUE, max |-> <<max_line, amp, Times111(maxsig)>>,
            min |-> <<min_line, 0, Times111(minsig)>>]
       ELSE IF row.model = "Voigt" THEN
           [bound |-> TRUE, max |-> <<max_line, amp, maxsig, Times111(maxsig)>>,
            min |-> <<min_line, 0, minsig, Times111(minsig)>>]
       ELSE IF row.model = "Continuum" THEN
           [bound |-> TRUE, max |-> <<Inf, Inf, Inf>>, min |-> <<0 - Inf, 0, 0 - Inf>>]
       ELSE [bound |-> FALSE, max |-> <<>>, min |-> <<>>]

\* the loop over df.iterrows(); carry holds max_i, min_i of the previous row
RECURSIVE LimitLoop(_, _, _, _, _)
LimitLoop(df, i, carry, mins, maxs) ==
    IF i > Len(df) THEN [ok |-> TRUE, min_limits |-> mins, max_limits |-> maxs]
    ELSE LET v == RowLimits(df, df[i])
             cur == IF v.bound THEN v ELSE carry
         IN IF ~cur.bound
            THEN [ok |-> FALSE, min_limits |-> mins, max_limits |-> maxs]  \* UnboundLocalError
            ELSE LimitLoop(df, i + 1, cur, Append(mins, cur.min), Append(maxs, cur.max))

minmaxlim(df) ==
    LimitLoop(df, 1, [bound |-> FALSE, max |-> <<>>, min |-> <<>>], <<>>, <<>>)

----------------------------------------------------------------------------
(* update_components *)

Present(df, line) == \E i \in 1..Len(df) : df[i].name = line

\* updated_df[updated_df['Line Name'] == line].index[-1]
LastIndex(df, line) ==
    CHOOSE i \in 1..Len(df) :
        /\ df[i].name = line
        /\ \A j \in (i + 1)..Len(df) : df[j].name # line

\* the row inserted for one addition; its limits are filled in by minmaxlim
NewRow(df, line, kind) ==
    LET last == df[LastIndex(df, line)]
        new_parameters == <<last.pars[1], Half(last.pars[2]), last.pars[3]>>
    IN Row(line, kind, last.comp + 1, new_parameters, <<>>, <<>>)

InsertAfter(df, i, row) ==
    SubSeq(df, 1, i) \o <<row>> \o SubSeq(df, i + 1, Len(df))

\* variant: the loop stops at the first line that is not in the table
RECURSIVE AddLoop_StopAtAbsent(_, _, _)
AddLoop_StopAtAbsent(df, adds, out) ==
    IF adds = <<>> THEN [df |-> df, printed |-> out]
    ELSE LET line == Head(adds).line
             kind == Head(adds).kind
         IN IF Present(df, line)
            THEN AddLoop_StopAtAbsent(
                     InsertAfter(df, LastIndex(df, line), NewRow(df, line, kind)),
                     Tail(adds), Append(out, <<"Adding", kind, line>>))
            ELSE [df |-> df, printed |-> Append(out, <<"not found", line>>)]

\* the loop over additional_components_dict.items()
RECURSIVE AddLoop(_, _, _)
AddLoop(df, adds, out) ==
    IF adds = <<>> THEN [df |-> df, printed |-> out]
    ELSE LET line == Head(adds).line
             kind == Head(adds).kind
         IN IF Present(df, line)
            THEN AddLoop(InsertAfter(df, LastIndex(df, line), NewRow(df, line, kind)),
                         Tail(adds), Append(out, <<"Adding", kind, line>>))
            ELSE AddLoop(df, Tail(adds), Append(out, <<"not found", line>>))

\* the table returned, or the exception raised
update_components(df, errcol, adds) ==
    IF ~errcol THEN [error |-> "KeyError", df |-> df, printed |-> <<>>]
    ELSE LET a == AddLoop(df, adds, <<>>)
             lim == minmaxlim(a.df)
         IN IF ~lim.ok
            THEN [error |-> "UnboundLocalError", df |-> df, printed |-> a.printed]
            ELSE [error |-> "none",
                  df |-> [i \in 1..Len(a.df) |->
                             [a.df[i] EXCEPT !.maxl = lim.max_limits[i],
                                             !.minl = lim.min_limits[i]]],
                  printed |-> a.printed]

----------------------------------------------------------------------------
(* The inputs *)

\* the lines that passed the filter, in catalog order
FilteredChoices ==
    {[i \in 1..Len(in) |->
         line_details(in[i].name, Wavelength[in[i].name], in[i].sigma, in[i].flux)] :
     in \in LineInputs}

Addition(line, kind) == [line |-> line, kind |-> kind]

\* dicts of one or two entries, in iteration order; a dict has distinct keys
AdditionChoices ==
    LET one == UNION {{<<Addition(l, m)>> : m \in RequestModels[l]} : l \in AdditionNames}
        two == {a \o b : a \in one, b \in one}
    IN one \cup {d \in two : d[1].line # d[2].line}

----------------------------------------------------------------------------
(* The table: build, optimizer pass, expansion *)

TableInit ==
    /\ emlines_dict \in {[Ha |-> a, Hb |-> b] : a \in CatalogModels.Ha, b \in CatalogModels.Hb}
    /\ filtered_linelist \in FilteredChoices
    /\ continuum_pars \in ContinuumChoices
    /\ dfparams = <<>>
    /\ hasErrors = FALSE
    /\ pc = "start"
    /\ error = "none"
    /\ inputdf = <<>>
    /\ additions = <<>>
    /\ printed = <<>>

\* dfparams = initial_dataframe(emlines_dict, linelist0, continuum_pars)
Build ==
    /\ pc = "start"
    /\ LET r == initial_dataframe(emlines_dict, filtered_linelist, continuum_pars)
       IN /\ dfparams' = IF r.ok THEN r.rows ELSE <<>>
          /\ error' = IF r.ok THEN "none" ELSE "UnboundLocalError"
    /\ pc' = "built"
    /\ UNCHANGED <<emlines_dict, filtered_linelist, continuum_pars, hasErrors,
                   inputdf, additions, printed>>

\* the optimizer pass between two expansions: it substitutes best-fit values
\* and adds the column 'Parameter Errors'
Fit ==
    /\ pc \in {"built", "updated"}
    /\ ~(pc = "built" /\ error # "none")
    /\ ~hasErrors
    /\ \/ dfparams' = dfparams
       \/ /\ pc = "built"
          /\ Len(dfparams) > 0
          /\ dfparams[1].model # "Continuum"
          /\ dfparams' = [dfparams EXCEPT ![1].pars[3] = FitSigma * K]
    /\ hasErrors' = TRUE
    /\ pc' = "fitted"
    /\ error' = "none"
    /\ UNCHANGED <<emlines_dict, filtered_linelist, continuum_pars,
                   inputdf, additions, printed>>

\* dfparams = update_components(dfparams, additional_components_dict)
Update ==
    /\ pc \in {"built", "fitted", "updated"}
    /\ ~(pc = "built" /\ error # "none")
    /\ \E adds \in AdditionChoices :
          /\ \A i \in 1..Len(dfparams), j \in 1..Len(adds) :
                 dfparams[i].name = adds[j].line => dfparams[i].comp < MaxComponent
          /\ LET r == update_components(dfparams, hasErrors, adds)
             IN /\ dfparams' = r.df
                /\ error' = r.error
                /\ printed' = r.printed
                /\ hasErrors' = IF r.error = "none" THEN FALSE ELSE hasErrors
          /\ inputdf' = dfparams
          /\ additions' = adds
    /\ pc' = "updated"
    /\ UNCHANGED <<emlines_dict, filtered_linelist, continuum_pars>>

TableNext == Build \/ Fit \/ Update

----------------------------------------------------------------------------
(* scipy.signal.find_peaks and peak_widths, on a sequence f of fluxes.    *)
(* A flux is stored in units of 1 / FluxScale, and every flux of the model *)
(* is even, so that half a prominence is an integer.                       *)

FluxScale == 2 * 2
Prominence == FluxScale \div 2          \* prominence=0.5
window == 20

\* _local_maxima_1d: the midpoint of every plateau that is higher than both
\* its neighbours; the first and the last sample are never maxima
LocalMaxima(f) ==
    {m \in 1..Len(f) :
        \E l \in 2..(Len(f) - 1), r \in 2..(Len(f) - 1) :
            /\ l <= r
            /\ m = (l + r) \div 2
            /\ f[l - 1] < f[l]
            /\ f[r + 1] < f[r]
            /\ \A j \in l..r : f[j] = f[l]}

SeqMin(f, a, b) == CHOOSE v \in {f[j] : j \in a..b} : \A j \in a..b : v <= f[j]

\* _peak_prominences without wlen: the walk to each side stops at the first
\* sample higher than the peak; the base is the lowest sample passed, the
\* one nearest to the peak when several are equal
LeftStop(f, p) ==
    IF \E j \in 1..(p - 1) : f[j] > f[p]
    THEN (CHOOSE j \in 1..(p - 1) : f[j] > f[p] /\ \A j2 \in (j + 1)..(p - 1) : f[j2] <= f[p]) + 1
    ELSE 1

RightStop(f, p) ==
    IF \E j \in (p + 1)..Len(f) : f[j] > f[p]
    THEN (CHOOSE j \in (p + 1)..Len(f) : f[j] > f[p] /\ \A j2 \in (p + 1)..(j - 1) : f[j2] <= f[p]) - 1
    ELSE Len(f)

LeftBase(f, p) ==
    LET lo == LeftStop(f, p)
        v == SeqMin(f, lo, p)
    IN CHOOSE j \in lo..p : f[j] = v /\ \A j2 \in (j + 1)..p : f[j2] # v

RightBase(f, p) ==
    LET hi == RightStop(f, p)
        v == SeqMin(f, p, hi)
    IN CHOOSE j \in p..hi : f[j] = v /\ \A j2 \in p..(j - 1) : f[j2] # v

Max2(a, b) == IF a >= b THEN a ELSE b

peak_prominence(f, p) == f[p] - Max2(f[LeftBase(f, p)], f[RightBase(f, p)])

\* find_peaks(f, prominence=0.5): the maxima whose prominence is at least 0.5
find_peaks(f) == {p \in LocalMaxima(f) : peak_prominence(f, p) >= Prominence}

\* _peak_widths at rel_height=0.5: the samples at which the walk from the
\* peak to each side stops, and the evaluation height
HalfHeight(f, p) == f[p] - peak_prominence(f, p) \div 2

LeftCross(f, p) ==
    LET h == HalfHeight(f, p)
        b == LeftBase(f, p)
    IN CHOOSE i \in b..p :
          /\ (i = b \/ h >= f[i])
          /\ \A j \in (i + 1)..p : b < j /\ h < f[j]

RightCross(f, p) ==
    LET h == HalfHeight(f, p)
        b == RightBase(f, p)
    IN CHOOSE i \in p..b :
          /\ (i = b \/ h >= f[i])
          /\ \A j \in p..(i - 1) : j < b /\ h < f[j]

\* np.interp of the left and right half-height crossings back to
\* wavelengths, as exact fractions <<numerator, denominator>>
LeftWavelength(wl, f, p) ==
    LET h == HalfHeight(f, p)
        i == LeftCross(f, p)
    IN IF f[i] < h
       THEN <<wl[i] * (f[i + 1] - f[i]) + (h - f[i]) * (wl[i + 1] - wl[i]), f[i + 1] - f[i]>>
       ELSE <<wl[i], 1>>

RightWavelength(wl, f, p) ==
    LET h == HalfHeight(f, p)
        i == RightCross(f, p)
    IN IF f[i] < h
       THEN <<wl[i] * (f[i - 1] - f[i]) - (h - f[i]) * (wl[i] - wl[i - 1]), f[i - 1] - f[i]>>
       ELSE <<wl[i], 1>>

\* fwhm = interp(left_ips + widths) - interp(left_ips), a fraction
Fwhm(wl, f, p) ==
    LET l == LeftWavelength(wl, f, p)
        r == RightWavelength(wl, f, p)
    IN <<r[1] * l[2] - l[1] * r[2], r[2] * l[2]>>

----------------------------------------------------------------------------
(* analyze_emission_lines *)

\* the indices selected by a boolean mask lo <= observed_wavelengths <= hi
RECURSIVE MaskIndices(_, _, _, _)
MaskIndices(wl, lo, hi, i) ==
    IF i > Len(wl) THEN <<>>
    ELSE (IF wl[i] >= lo /\ wl[i] <= hi THEN <<i>> ELSE <<>>)
         \o MaskIndices(wl, lo, hi, i + 1)

Abs(a) == IF a < 0 THEN 0 - a ELSE a

\* variant: closest_peak_idx is assigned for every peak, the last one stays
ClosestPeak_LastPeak(window_wavelengths, peaks, rest_wavelength) ==
    IF peaks = {} THEN 0
    ELSE CHOOSE c \in peaks : \A q \in peaks : c >= q

\* the loop over peaks: the first peak, in increasing index, with the
\* smallest |observed_wavelength - rest_wavelength|; 0 when there is none
ClosestPeak(window_wavelengths, peaks, rest_wavelength) ==
    IF peaks = {} THEN 0
    ELSE CHOOSE c \in peaks :
            \A q \in peaks :
                \/ Abs(window_wavelengths[c] - rest_wavelength)
                       < Abs(window_wavelengths[q] - rest_wavelength)
                \/ /\ Abs(window_wavelengths[c] - rest_wavelength)
                          = Abs(window_wavelengths[q] - rest_wavelength)
                   /\ c <= q

\* np.where(observed_wavelengths == observed_wavelength)[0][0]
FirstIndexOf(wl, w) == CHOOSE i \in 1..Len(wl) : wl[i] = w /\ \A j \in 1..(i - 1) : wl[j] # w

\* the body of the first loop for one catalog entry: the matched line, or
\* <<>> when the entry is skipped
MatchLine(wl, flux, entry) ==
    IF ~entry.defined THEN <<>>
    ELSE LET rest_wavelength == entry.wavelength
             idx == MaskIndices(wl, rest_wavelength - window, rest_wavelength + window, 1)
             window_flux == [j \in 1..Len(idx) |-> flux[idx[j]]]
             window_wavelengths == [j \in 1..Len(idx) |-> wl[idx[j]]]
         IN IF Len(idx) = 0 THEN <<>>
            ELSE LET closest_peak_idx ==
                         ClosestPeak(window_wavelengths, find_peaks(window_flux), rest_wavelength)
                 IN IF closest_peak_idx = 0 THEN <<>>
                    ELSE <<[line |-> entry.name,
                            restframe_wavelength |-> rest_wavelength,
                            observed_wavelength |-> window_wavelengths[closest_peak_idx],
                            peak_flux |-> window_flux[closest_peak_idx],
                            peak_idx |-> FirstIndexOf(wl, window_wavelengths[closest_peak_idx])]>>

\* observed_wavelengths >= line_start and <= line_end, with
\* sigma = fwhm / 2.355, line_start = observed - fwhm / 2 - 3 * sigma and
\* line_end = observed + fwhm / 2 + 3 * sigma; fwhm is the fraction
\* fwhm[1] / fwhm[2], and 1 / 2 + 3 / 2.355 = 557 / 314
InLineWindow(w, observed, fwhm) ==
    /\ (observed - w) * 314 * fwhm[2] <= 557 * fwhm[1]
    /\ (w - observed) * 314 * fwhm[2] <= 557 * fwhm[1]

Flux(v) == [kind |-> "flux", v |-> v]
Noise == [kind |-> "noise", v |-> 0]     \* a draw of np.random.normal
Zero == [kind |-> "flux", v |-> 0]

DetectNames == {lines_dict[i].name : i \in 1..Len(lines_dict)}

\* variant: an empty window ends the loop (break for continue)
Match_BreakOnEmpty ==
    /\ dpc = "match"
    /\ pos <= Len(lines_dict)
    /\ matched_lines' = matched_lines \o MatchLine(x, y, lines_dict[pos])
    /\ pos' = IF /\ lines_dict[pos].defined
                 /\ MaskIndices(x, lines_dict[pos].wavelength - window,
                                lines_dict[pos].wavelength + window, 1) = <<>>
              THEN Len(lines_dict) + 1
              ELSE pos + 1
    /\ UNCHANGED <<x, y, lines_dict, results, continuum_mask, synthetic_flux, dpc>>

\* first loop: one catalog entry
Match ==
    /\ dpc = "match"
    /\ pos <= Len(lines_dict)
    /\ matched_lines' = matched_lines \o MatchLine(x, y, lines_dict[pos])
    /\ pos' = pos + 1
    /\ UNCHANGED <<x, y, lines_dict, results, continuum_mask, synthetic_flux, dpc>>

\* the first loop is over
EndMatch ==
    /\ dpc = "match"
    /\ pos > Len(lines_dict)
    /\ dpc' = "mask"
    /\ pos' = 1
    /\ UNCHANGED <<x, y, lines_dict, matched_lines, results, continuum_mask, synthetic_flux>>

\* variant: continuum_mask = ~mask, the windows of earlier lines are lost
MaskOut_Overwrite(cmask, wl, observed, fwhm) ==
    [i \in 1..Len(cmask) |-> ~InLineWindow(wl[i], observed, fwhm)]

\* continuum_mask &= ~mask
MaskOut(cmask, wl, observed, fwhm) ==
    [i \in 1..Len(cmask) |-> cmask[i] /\ ~InLineWindow(wl[i], observed, fwhm)]

\* second loop: one matched line
MaskLine ==
    /\ dpc = "mask"
    /\ pos <= Len(matched_lines)
    /\ LET line == matched_lines[pos]
           fwhm == Fwhm(x, y, line.peak_idx)
           mask == {i \in 1..Len(x) : InLineWindow(x[i], line.observed_wavelength, fwhm)}
       IN /\ results' = Append(results,
                               [line |-> line.line,
                                restframe_wavelength |-> line.restframe_wavelength,
                                observed_wavelength |-> line.observed_wavelength,
                                fwhm |-> fwhm,
                                peak_flux |-> line.peak_flux])
          /\ continuum_mask' = MaskOut(continuum_mask, x, line.observed_wavelength, fwhm)
          /\ synthetic_flux' =
                 [i \in 1..Len(x) |->
                     IF i \in mask
                     THEN (IF mask # 1..Len(x) THEN Noise ELSE Zero)
                     ELSE synthetic_flux[i]]
    /\ pos' = pos + 1
    /\ UNCHANGED <<x, y, lines_dict, matched_lines, dpc>>

\* return results, std_cont, continuum_spectrum
Return ==
    /\ dpc = "mask"
    /\ pos > Len(matched_lines)
    /\ dpc' = "done"
    /\ UNCHANGED <<x, y, lines_dict, matched_lines, results, continuum_mask,
                   synthetic_flux, pos>>

DetectNext == Match \/ EndMatch \/ MaskLine \/ Return

----------------------------------------------------------------------------
(* filter_and_prepare_linelist.  Wavelengths, fluxes and the threshold are  *)
(* plain integers here; a line carries sigma_max = fwhm / (2 sqrt(2 ln 2))  *)
(* in place of its fwhm, so that the core region has rational edges.       *)

window_width == 10

\* the fluxes of continuum_spec0 with lo <= wavelength <= hi
RECURSIVE WindowFluxes(_, _, _, _)
WindowFluxes(cs, lo, hi, i) ==
    IF i > Len(cs) THEN <<>>
    ELSE (IF cs[i][1] >= lo /\ cs[i][1] <= hi THEN <<cs[i][2]>> ELSE <<>>)
         \o WindowFluxes(cs, lo, hi, i + 1)

RECURSIVE SeqSum(_)
SeqSum(f) == IF f = <<>> THEN 0 ELSE Head(f) + SeqSum(Tail(f))

SeqSumSq(f) == SeqSum([j \in 1..Len(f) |-> f[j] * f[j]])

\* n^2 times the variance of f: np.std(f) = sqrt(VarN2(f)) / n
VarN2(f) == Len(f) * SeqSumSq(f) - SeqSum(f) * SeqSum(f)

\* sqrt(p) + sqrt(q) <= c / t for integers p, q >= 0, c and t > 0
SqrtSumLeq(p, q, c, t) ==
    /\ c >= 0
    /\ c * c - t * t * (p + q) >= 0
    /\ \/ p * q = 0
       \/ (c * c - t * t * (p + q)) * (c * c - t * t * (p + q)) >= 4 * t * t * t * t * p * q

\* local_std > 0: false when a side window is empty (np.std is then nan,
\* and every comparison with nan is false) and when both deviations are 0
LocalStdPositive(left, right) ==
    /\ Len(left) > 0
    /\ Len(right) > 0
    /\ VarN2(left) > 0 \/ VarN2(right) > 0

\* (line_flux - local_mean) / local_std >= snr_ext, for local_std > 0, with
\* local_mean and local_std the means of the two side windows' statistics;
\* both sides are multiplied by 2 * Len(left) * Len(right) * local_std
SnrReaches(line_flux, left, right, threshold) ==
    LET nl == Len(left)
        nr == Len(right)
        c == 2 * nl * nr * line_flux - nr * SeqSum(left) - nl * SeqSum(right)
        p == nr * nr * VarN2(left)
        q == nl * nl * VarN2(right)
    IN IF threshold > 0 THEN SqrtSumLeq(p, q, c, threshold)
       ELSE c >= 0        \* threshold = 0; snr_cont is a deviation, never negative

\* variant: snr > snr_ext, so that the fallback snr = snr_ext does not pass
LinePasses_FallbackFails(line, cs, range, threshold) ==
    /\ range[1] <= line.observed_wavelength
    /\ line.observed_wavelength <= range[2]
    /\ LET lineloc_min == line.observed_wavelength - 2 * line.sigma_max
           lineloc_max == line.observed_wavelength + 2 * line.sigma_max
           window_left == WindowFluxes(cs, lineloc_min - window_width, lineloc_min, 1)
           window_right == WindowFluxes(cs, lineloc_max, lineloc_max + window_width, 1)
           snr_ok == IF LocalStdPositive(window_left, window_right)
                     THEN SnrReaches(line.peak_flux, window_left, window_right, threshold)
                     ELSE threshold > threshold
       IN snr_ok \/ line.peak_flux > 3 * threshold

\* the two conditions of the loop body for one line
LinePasses(line, cs, range, threshold) ==
    /\ range[1] <= line.observed_wavelength
    /\ line.observed_wavelength <= range[2]
    /\ LET lineloc_min == line.observed_wavelength - 2 * line.sigma_max
           lineloc_max == line.observed_wavelength + 2 * line.sigma_max
           window_left == WindowFluxes(cs, lineloc_min - window_width, lineloc_min, 1)
           window_right == WindowFluxes(cs, lineloc_max, lineloc_max + window_width, 1)
           snr_ok == IF LocalStdPositive(window_left, window_right)
                     THEN SnrReaches(line.peak_flux, window_left, window_right, threshold)
                     ELSE threshold >= threshold          \* snr = snr_ext
       IN snr_ok \/ line.peak_flux > 3 * threshold

\* the body of the loop for one line: the details appended, if any
FilterLine(line, cs, range, threshold) ==
    IF LinePasses(line, cs, range, threshold)
    THEN <<line_details(line.line, line.observed_wavelength, line.sigma_max, line.peak_flux)>>
    ELSE <<>>

FilterStep ==
    /\ fpc = "loop"
    /\ fpos <= Len(line_results)
    /\ filtered_linelist' = filtered_linelist \o
           FilterLine(line_results[fpos], continuum_spec0, wavelength_range, snr_ext)
    /\ fpos' = fpos + 1
    /\ UNCHANGED <<line_results, continuum_spec0, wavelength_range, snr_ext, fpc>>

\* return filtered_linelist
FilterReturn ==
    /\ fpc = "loop"
    /\ fpos > Len(line_results)
    /\ fpc' = "done"
    /\ UNCHANGED <<line_results, continuum_spec0, wavelength_range, snr_ext, fpos,
                   filtered_linelist>>

FilterNext == FilterStep \/ FilterReturn

----------------------------------------------------------------------------
(* init_setup.  The spectrum enters through what analyze_emission_lines     *)
(* returns for it: the detected lines, the noise of the continuum and the   *)
(* continuum spectrum, in the form filter_and_prepare_linelist reads.       *)

Stages == <<"analyze_emission_lines", "continuum_init",
            "filter_and_prepare_linelist", "initial_dataframe">>

\* the loop of filter_and_prepare_linelist over all lines
RECURSIVE filter_and_prepare_linelist(_, _, _, _)
filter_and_prepare_linelist(lines, cs, range, threshold) ==
    IF lines = <<>> THEN <<>>
    ELSE FilterLine(Head(lines), cs, range, threshold)
         \o filter_and_prepare_linelist(Tail(lines), cs, range, threshold)

\* lines_init, snr_cont, continuum0 = analyze_emission_lines(x, y, emlines_dict)
SetupAnalyze ==
    /\ stage = "analyze"
    /\ \E lines \in ResultChoices, fl \in [1..NSamples -> ContinuumFluxes], t \in Thresholds :
          /\ line_results' = lines
          /\ continuum_spec0' = [i \in 1..NSamples |-> <<95 + 5 * i, fl[i]>>]
          /\ snr_ext' = t
    /\ calls' = Append(calls, Stages[1])
    /\ stage' = "continuum"
    /\ UNCHANGED <<tvars, dvars, wavelength_range, fpc, fpos>>

\* variant: a failure of curve_fit is caught and the setup goes on without
\* continuum parameters
SetupContinuum_SwallowFailure ==
    /\ stage = "continuum"
    /\ calls' = Append(calls, Stages[2])
    /\ \/ continuum_pars' \in ContinuumChoices \ {None}
       \/ continuum_pars' = None
    /\ stage' = "filter"
    /\ UNCHANGED <<emlines_dict, filtered_linelist, dfparams, hasErrors, pc, error,
                   inputdf, additions, printed, dvars, fvars>>

\* continuum_pars = continuum_init(continuum0, gamma_init): curve_fit returns
\* the parameters, or raises RuntimeError when the fit does not converge;
\* nothing catches it
SetupContinuum ==
    /\ stage = "continuum"
    /\ calls' = Append(calls, Stages[2])
    /\ \/ /\ continuum_pars' \in ContinuumChoices \ {None}
          /\ stage' = "filter"
          /\ error' = error
       \/ /\ continuum_pars' = continuum_pars
          /\ stage' = "raised"
          /\ error' = "RuntimeError"
    /\ UNCHANGED <<emlines_dict, filtered_linelist, dfparams, hasErrors, pc,
                   inputdf, additions, printed, dvars, fvars>>

\* linelist0 = filter_and_prepare_linelist(lines_init, continuum0, wavelength_range, snr_cont)
SetupFilter ==
    /\ stage = "filter"
    /\ filtered_linelist' =
           filter_and_prepare_linelist(line_results, continuum_spec0, wavelength_range, snr_ext)
    /\ calls' = Append(calls, Stages[3])
    /\ stage' = "table"
    /\ UNCHANGED <<emlines_dict, continuum_pars, dfparams, hasErrors, pc, error,
                   inputdf, additions, printed, dvars, fvars>>

\* dfparams = initial_dataframe(emlines_dict, linelist0, continuum_pars=continuum_pars)
\* and return dfparams
SetupTable ==
    /\ stage = "table"
    /\ LET r == initial_dataframe(emlines_dict, filtered_linelist, continuum_pars)
       IN /\ dfparams' = IF r.ok THEN r.rows ELSE <<>>
          /\ error' = IF r.ok THEN error ELSE "UnboundLocalError"
          /\ stage' = IF r.ok THEN "returned" ELSE "raised"
    /\ calls' = Append(calls, Stages[4])
    /\ UNCHANGED <<emlines_dict, filtered_linelist, continuum_pars, hasErrors, pc,
                   inputdf, additions, printed, dvars, fvars>>

SetupNext == SetupAnalyze \/ SetupContinuum \/ SetupFilter \/ SetupTable

----------------------------------------------------------------------------
(* Specifications *)

EntryChoices(name) ==
    (IF name = LineNames[1] THEN {[name |-> name, defined |-> FALSE, wavelength |-> 0]} ELSE {})
    \cup {[name |-> name, defined |-> TRUE, wavelength |-> w] : w \in RestChoices[name]}

TableIdle ==
    /\ emlines_dict = [Ha |-> "Gaussian", Hb |-> "Gaussian"]
    /\ filtered_linelist = <<>>
    /\ continuum_pars = None
    /\ dfparams = <<>>
    /\ hasErrors = FALSE
    /\ pc = "idle"
    /\ error = "none"
    /\ inputdf = <<>>
    /\ additions = <<>>
    /\ printed = <<>>

DetectIdle ==
    /\ x = <<>>
    /\ y = <<>>
    /\ lines_dict = <<>>
    /\ matched_lines = <<>>
    /\ results = <<>>
    /\ continuum_mask = <<>>
    /\ synthetic_flux = <<>>
    /\ dpc = "idle"
    /\ pos = 0

\* analyze_emission_lines(x, y, lines_dict) up to the first loop
DetectInit ==
    /\ x \in Grids
    /\ y \in [1..NSamples -> FluxValues]
    /\ lines_dict \in {<<a, b>> : a \in EntryChoices(LineNames[1]),
                                   b \in EntryChoices(LineNames[2])}
    /\ matched_lines = <<>>
    /\ results = <<>>
    /\ continuum_mask = [i \in 1..NSamples |-> TRUE]
    /\ synthetic_flux = [i \in 1..NSamples |-> Flux(y[i])]
    /\ dpc = "match"
    /\ pos = 1

FilterIdle ==
    /\ line_results = <<>>
    /\ continuum_spec0 = <<>>
    /\ wavelength_range = <<0, 0>>
    /\ snr_ext = 0
    /\ fpc = "idle"
    /\ fpos = 0

SetupIdle ==
    /\ stage = "idle"
    /\ calls = <<>>

\* filter_and_prepare_linelist(line_results, continuum_spec0, wavelength_range,
\* snr_ext) up to its loop
FilterInit ==
    /\ line_results \in ResultChoices
    /\ \E fl \in [1..NSamples -> ContinuumFluxes] :
          continuum_spec0 = [i \in 1..NSamples |-> <<95 + 5 * i, fl[i]>>]
    /\ wavelength_range \in RangeChoices
    /\ snr_ext \in Thresholds
    /\ fpc = "loop"
    /\ fpos = 1

Init == TableInit /\ DetectIdle /\ FilterIdle /\ SetupIdle
Next == TableNext /\ UNCHANGED <<dvars, fvars, svars>>
Spec == Init /\ [][Next]_vars

InitDetect == DetectInit /\ TableIdle /\ FilterIdle /\ SetupIdle
NextDetect == DetectNext /\ UNCHANGED <<tvars, fvars, svars>>
SpecDetect == InitDetect /\ [][NextDetect]_vars

InitFilter == FilterInit /\ TableIdle /\ DetectIdle /\ SetupIdle
NextFilter ==
    /\ FilterNext
    /\ UNCHANGED <<emlines_dict, continuum_pars, dfparams, hasErrors, pc, error,
                   inputdf, additions, printed, dvars, svars>>
SpecFilter == InitFilter /\ [][NextFilter]_vars

\* init_setup(spectrum, emlines_dict, wavelength_range, gamma_init), with the
\* spectrum restricted to the wavelength range
SetupInit ==
    /\ emlines_dict \in {[Ha |-> a, Hb |-> "Lorentzian"] : a \in {"Gaussian", "Asymmetric Gaussian"}}
    /\ filtered_linelist = <<>>
    /\ continuum_pars = None
    /\ dfparams = <<>>
    /\ hasErrors = FALSE
    /\ pc = "idle"
    /\ error = "none"
    /\ inputdf = <<>>
    /\ additions = <<>>
    /\ printed = <<>>
    /\ line_results = <<>>
    /\ continuum_spec0 = <<>>
    /\ wavelength_range = <<100, 130>>
    /\ snr_ext = 0
    /\ fpc = "idle"
    /\ fpos = 0
    /\ stage = "analyze"
    /\ calls = <<>>

InitSetup == SetupInit /\ DetectIdle
NextSetup == SetupNext
SpecSetup == InitSetup /\ [][NextSetup]_vars

----------------------------------------------------------------------------
(* Properties of the parameter table *)

Returned == pc \in {"built", "updated"} /\ error = "none"
Built == pc = "built" /\ error = "none"
Updated == pc = "updated" /\ error = "none"

Min2(a, b) == IF a <= b THEN a ELSE b
IsPresent(j) == \E i \in 1..Len(inputdf) : inputdf[i].name = additions[j].line
PresentAdditions == {j \in 1..Len(additions) : IsPresent(j)}
Unknown(row) == row.model \notin KnownModels

\* C1: in every table returned by initial_dataframe or update_components,
\* every row has Min Limits[i] <= Parameters[i] <= Max Limits[i] at every
\* position i.
C1_WithinLimits ==
    Returned =>
        \A r \in 1..Len(dfparams) :
            \A i \in 1..Min2(Len(dfparams[r].pars),
                              Min2(Len(dfparams[r].minl), Len(dfparams[r].maxl))) :
                /\ dfparams[r].minl[i] <= dfparams[r].pars[i]
                /\ dfparams[r].pars[i] <= dfparams[r].maxl[i]

\* C2: the table returned by initial_dataframe has one row of component
\* index 1 per filtered line, in the order of filtered_linelist, followed
\* by one row 'Continuum' of component index 0 exactly when continuum_pars
\* is given.
C2_RowsOfBuild ==
    Built =>
        LET n == Len(filtered_linelist)
        IN /\ Len(dfparams) = n + (IF continuum_pars # None THEN 1 ELSE 0)
           /\ \A i \in 1..n :
                 /\ dfparams[i].name = filtered_linelist[i].name
                 /\ dfparams[i].comp = 1
                 /\ dfparams[i].model # "Continuum"
           /\ continuum_pars # None =>
                 /\ dfparams[n + 1].name = "Continuum"
                 /\ dfparams[n + 1].model = "Continuum"
                 /\ dfparams[n + 1].comp = 0
                 /\ dfparams[n + 1].pars = continuum_pars

C2_Witness ==
    /\ Built
    /\ Len(filtered_linelist) = 2
    /\ continuum_pars # None
    /\ Len(dfparams) = 3
    /\ dfparams[3].comp = 0

\* C3: the row built for a filtered line of a Gaussian entry is
\* [wavelength, max_flux, sigma], [max_loc, max_flux, max_sd],
\* [min_loc, 0, min_sd]; a Lorentzian entry has the third entries times
\* 1.11; a Voigt entry has the Gaussian vectors and a fourth entry of 1.11
\* times the third.
C3_VectorsOfBuild ==
    Built =>
        \A i \in 1..Len(filtered_linelist) :
            LET line == filtered_linelist[i]
                row == dfparams[i]
                model == emlines_dict[line.name]
                first2 == /\ row.pars[1] = line.wavelength /\ row.pars[2] = line.max_flux
                          /\ row.maxl[1] = line.max_loc /\ row.maxl[2] = line.max_flux
                          /\ row.minl[1] = line.min_loc /\ row.minl[2] = 0
                lens(n) == Len(row.pars) = n /\ Len(row.maxl) = n /\ Len(row.minl) = n
            IN /\ model = "Gaussian" =>
                     /\ lens(3) /\ first2
                     /\ row.pars[3] = line.sigma
                     /\ row.maxl[3] = line.max_sd
                     /\ row.minl[3] = line.min_sd
               /\ model = "Lorentzian" =>
                     /\ lens(3) /\ first2
                     /\ 100 * row.pars[3] = 111 * line.sigma
                     /\ 100 * row.maxl[3] = 111 * line.max_sd
                     /\ 100 * row.minl[3] = 111 * line.min_sd
               /\ model = "Voigt" =>
                     /\ lens(4) /\ first2
                     /\ row.pars[3] = line.sigma
                     /\ row.maxl[3] = line.max_sd
                     /\ row.minl[3] = line.min_sd
                     /\ 100 * row.pars[4] = 111 * row.pars[3]
                     /\ 100 * row.maxl[4] = 111 * row.maxl[3]
                     /\ 100 * row.minl[4] = 111 * row.minl[3]

C3_Witness ==
    /\ Built
    /\ Len(filtered_linelist) = 2
    /\ emlines_dict["Ha"] = "Voigt"
    /\ emlines_dict["Hb"] = "Lorentzian"
    /\ Len(dfparams[1].pars) = 4
    /\ dfparams[2].model = "Lorentzian"

\* the highest component index of a line, and the row that holds it
MaxComp(df, line) ==
    CHOOSE c \in {df[i].comp : i \in {i2 \in 1..Len(df) : df[i2].name = line}} :
        \A i \in 1..Len(df) : df[i].name = line => df[i].comp <= c

HighestRow(df, line) ==
    CHOOSE i \in 1..Len(df) : df[i].name = line /\ df[i].comp = MaxComp(df, line)

WasThere(row) ==
    \E i \in 1..Len(inputdf) : inputdf[i].name = row.name /\ inputdf[i].comp = row.comp

\* C4: for each addition whose line is in the table, update_components
\* inserts one row right after the row of the line's highest component
\* index, with that index plus one, the requested model, and the
\* parameter vector of that previous component with the amplitude halved;
\* the rows that were there keep line name, model, component index,
\* parameter vector and order.
C4_InsertedRows ==
    Updated =>
        /\ Len(dfparams) = Len(inputdf) + Cardinality(PresentAdditions)
        /\ \A j \in PresentAdditions :
              LET line == additions[j].line
                  prev == inputdf[HighestRow(inputdf, line)]
              IN \E n \in 2..Len(dfparams) :
                    /\ dfparams[n].name = line
                    /\ dfparams[n].comp = prev.comp + 1
                    /\ dfparams[n].model = additions[j].kind
                    /\ dfparams[n - 1].name = line
                    /\ dfparams[n - 1].comp = prev.comp
                    /\ Len(dfparams[n].pars) = Len(prev.pars)
                    /\ \A i \in 1..Len(prev.pars) :
                          IF i = 2 THEN 2 * dfparams[n].pars[i] = prev.pars[i]
                          ELSE dfparams[n].pars[i] = prev.pars[i]
        /\ LET old == SelectSeq(dfparams, WasThere)
           IN /\ Len(old) = Len(inputdf)
              /\ \A i \in 1..Len(old) :
                    /\ old[i].name = inputdf[i].name
                    /\ old[i].model = inputdf[i].model
                    /\ old[i].comp = inputdf[i].comp
                    /\ old[i].pars = inputdf[i].pars

\* C5: after update_components every row of a known model has the limits
\* of the one rule: location centroid -/+ 2 sigma, amplitude from 0 to
\* amplitude * factor, width from min_sd = 2.0 to max_sd = 1.5 sigma (times
\* 1.11 for a Lorentzian width), with factor 1 for the only component of a
\* line, 2 for component 1 or 2 of a line with several, 2^(index - 1) from
\* index 3 on; a continuum row has [-inf, 0, -inf] and [inf, inf, inf].
C5_Factor(row) ==
    IF Cardinality({i \in 1..Len(dfparams) : dfparams[i].name = row.name}) = 1 THEN 1
    ELSE IF row.comp \in {1, 2} THEN 2
    ELSE Pow2(row.comp - 1)

C5_BoundRule ==
    Updated =>
        \A r \in 1..Len(dfparams) :
            LET row == dfparams[r]
                centroid == row.pars[1]
                amplitude == row.pars[2]
                sigma == row.pars[3]
                location == /\ row.minl[1] = centroid - 2 * sigma
                            /\ row.maxl[1] = centroid + 2 * sigma
                amp == /\ row.minl[2] = 0
                       /\ row.maxl[2] = amplitude * C5_Factor(row)
            IN /\ row.model = "Continuum" =>
                     /\ row.minl = <<0 - Inf, 0, 0 - Inf>>
                     /\ row.maxl = <<Inf, Inf, Inf>>
               /\ row.model = "Gaussian" =>
                     /\ location /\ amp
                     /\ Len(row.minl) = 3 /\ Len(row.maxl) = 3
                     /\ row.minl[3] = 2 * K
                     /\ 2 * row.maxl[3] = 3 * sigma
               /\ row.model = "Lorentzian" =>
                     /\ location /\ amp
                     /\ Len(row.minl) = 3 /\ Len(row.maxl) = 3
                     /\ 100 * row.minl[3] = 111 * 2 * K
                     /\ 200 * row.maxl[3] = 333 * sigma
               /\ row.model = "Voigt" =>
                     /\ location /\ amp
                     /\ Len(row.minl) = 4 /\ Len(row.maxl) = 4
                     /\ row.minl[3] = 2 * K
                     /\ 2 * row.maxl[3] = 3 * sigma
                     /\ 100 * row.minl[4] = 111 * 2 * K
                     /\ 200 * row.maxl[4] = 333 * sigma

C5_Witness ==
    /\ Updated
    /\ \E r \in 1..Len(dfparams) : dfparams[r].comp = 3 /\ dfparams[r].model = "Voigt"
    /\ \E r \in 1..Len(dfparams) : dfparams[r].comp = 2 /\ dfparams[r].model = "Gaussian"
    /\ \E r \in 1..Len(dfparams) : dfparams[r].model = "Continuum"
    /\ \E r \in 1..Len(dfparams) : dfparams[r].model = "Lorentzian"

\* C6: after any sequence of update_components calls, Min Limits, Max Limits
\* and Parameters of a row have one length, 4 for a Voigt row and 3 for a
\* Gaussian, Lorentzian or Continuum row.
C6_VectorLengths ==
    Updated =>
        \A r \in 1..Len(dfparams) :
            LET row == dfparams[r]
                n == IF row.model = "Voigt" THEN 4 ELSE 3
            IN ~Unknown(row) =>
                  Len(row.pars) = n /\ Len(row.minl) = n /\ Len(row.maxl) = n

\* C7: an addition that names a line absent from the table is reported and
\* adds no row, the call returns, and every addition whose line is present
\* is applied: the table grows by the number of those.
C7_AbsentLineSkipped ==
    (pc = "updated" /\ error # "KeyError") =>
        /\ error = "none"
        /\ Len(dfparams) = Len(inputdf) + Cardinality(PresentAdditions)
        /\ \A j \in 1..Len(additions) :
              IF IsPresent(j)
              THEN \E r \in 1..Len(dfparams) :
                      /\ dfparams[r].name = additions[j].line
                      /\ dfparams[r].model = additions[j].kind
                      /\ dfparams[r].comp = MaxComp(inputdf, additions[j].line) + 1
              ELSE /\ j <= Len(printed)
                   /\ printed[j] = <<"not found", additions[j].line>>
                   /\ \A r \in 1..Len(dfparams) : dfparams[r].name # additions[j].line

C7_Witness ==
    /\ Updated
    /\ Len(additions) = 2
    /\ ~IsPresent(1)
    /\ IsPresent(2)
    /\ Len(dfparams) = Len(inputdf) + 1

\* C8: a row whose model is none of Gaussian, Lorentzian, Voigt, Continuum
\* gets no limits (its construction is aborted, it does not receive the
\* limits computed for another row), and the limits of the other rows are
\* those of the table without it.
C8_UnknownModelAborted ==
    Returned =>
        /\ \A r \in 1..Len(dfparams) :
              Unknown(dfparams[r]) => dfparams[r].minl = <<>> /\ dfparams[r].maxl = <<>>
        /\ Updated =>
              LET known == SelectSeq(dfparams, LAMBDA row : ~Unknown(row))
                  lim == minmaxlim(known)
              IN \A r \in 1..Len(known) :
                    /\ known[r].minl = lim.min_limits[r]
                    /\ known[r].maxl = lim.max_limits[r]

----------------------------------------------------------------------------
(* Properties of analyze_emission_lines *)

Detected(name) == \E r \in 1..Len(results) : results[r].line = name

SeqMax(f) == CHOOSE v \in {f[j] : j \in 1..Len(f)} : \A j \in 1..Len(f) : v >= f[j]

OutsideCoverage(entry) ==
    /\ entry.defined
    /\ entry.wavelength < SeqMin(x, 1, Len(x)) \/ entry.wavelength > SeqMax(x)

EmptyWindow(entry) ==
    /\ entry.defined
    /\ \A i \in 1..Len(x) :
          x[i] < entry.wavelength - window \/ x[i] > entry.wavelength + window

\* the entry has a maximum of prominence 0.5 or more in its window
HasPeak(entry) ==
    /\ entry.defined
    /\ LET idx == MaskIndices(x, entry.wavelength - window, entry.wavelength + window, 1)
       IN find_peaks([j \in 1..Len(idx) |-> y[idx[j]]]) # {}

\* C9 as stated: a catalog entry whose rest wavelength is below the
\* smallest or above the largest sample wavelength yields no detected line.
C9_OutsideCoverageUndetected ==
    dpc = "done" =>
        \A e \in 1..Len(lines_dict) :
            OutsideCoverage(lines_dict[e]) => ~Detected(lines_dict[e].name)

\* C9 amended: a catalog entry whose window [rest - window, rest + window]
\* holds no sample yields no detected line, the call returns without an
\* exception, and every other entry with a prominent maximum in its window
\* is detected.
C9_EmptyWindowUndetected ==
    dpc = "done" =>
        /\ error = "none"
        /\ \A e \in 1..Len(lines_dict) :
              /\ EmptyWindow(lines_dict[e]) => ~Detected(lines_dict[e].name)
              /\ HasPeak(lines_dict[e]) => Detected(lines_dict[e].name)

C9_Witness ==
    /\ dpc = "done"
    /\ EmptyWindow(lines_dict[1])
    /\ Detected(lines_dict[2].name)

\* C10: in the final continuum mask no sample whose wavelength lies in
\* [observed - fwhm/2 - 3 sigma, observed + fwhm/2 + 3 sigma] of a detected
\* line is marked as continuum (sigma = fwhm / 2.355; the fwhm is the
\* fraction fwhm[1] / fwhm[2], and both sides are multiplied by 4710).
C10_InWindow(i, r) ==
    /\ 4710 * results[r].fwhm[2] * (results[r].observed_wavelength - x[i])
          <= (2355 + 6000) * results[r].fwhm[1]
    /\ 4710 * results[r].fwhm[2] * (x[i] - results[r].observed_wavelength)
          <= (2355 + 6000) * results[r].fwhm[1]

C10_MaskExcludesWindows ==
    dpc = "done" =>
        \A r \in 1..Len(results) :
            \A i \in 1..Len(x) : C10_InWindow(i, r) => ~continuum_mask[i]

C10_Witness ==
    /\ dpc = "done"
    /\ Len(results) = 2
    /\ \E i, j \in 1..Len(x) :
          /\ C10_InWindow(i, 1) /\ ~C10_InWindow(i, 2)
          /\ C10_InWindow(j, 1) /\ C10_InWindow(j, 2)

\* the samples of the window of an entry, and its maxima by prominence
C12_Window(entry) == MaskIndices(x, entry.wavelength - window, entry.wavelength + window, 1)
C12_WindowFlux(entry) == [j \in 1..Len(C12_Window(entry)) |-> y[C12_Window(entry)[j]]]
C12_WindowWavelengths(entry) == [j \in 1..Len(C12_Window(entry)) |-> x[C12_Window(entry)[j]]]

C12_MaximaAbove(entry) ==
    {p \in LocalMaxima(C12_WindowFlux(entry)) :
        peak_prominence(C12_WindowFlux(entry), p) > Prominence}

C12_MaximaAtLeast(entry) ==
    {p \in LocalMaxima(C12_WindowFlux(entry)) :
        peak_prominence(C12_WindowFlux(entry), p) >= Prominence}

C12_ResultsOf(entry) == {r \in 1..Len(results) : results[r].line = entry.name}

\* the one result of the entry is a maximum of the set and no maximum of
\* the set is nearer to the rest wavelength
C12_IsClosestOf(entry, maxima) ==
    /\ Cardinality(C12_ResultsOf(entry)) = 1
    /\ \A r \in C12_ResultsOf(entry) :
          /\ \E p \in maxima :
                C12_WindowWavelengths(entry)[p] = results[r].observed_wavelength
          /\ \A q \in maxima :
                Abs(results[r].observed_wavelength - entry.wavelength)
                    <= Abs(C12_WindowWavelengths(entry)[q] - entry.wavelength)

\* the results follow the order of the catalog
C12_CatalogOrder ==
    \A r1, r2 \in 1..Len(results) :
        r1 < r2 =>
            \E e1, e2 \in 1..Len(lines_dict) :
                /\ e1 < e2
                /\ lines_dict[e1].name = results[r1].line
                /\ lines_dict[e2].name = results[r2].line

\* C12 as stated: a catalog entry with a defined rest wavelength yields at
\* most one detected line; exactly one when its window holds a local
\* maximum with prominence above 0.5, and its observed wavelength then is
\* that of the maximum nearest to the rest wavelength among the maxima with
\* prominence above 0.5; none when no maximum meets the threshold of 0.5;
\* the detected lines are in catalog order.
C12_ClosestAbove ==
    dpc = "done" =>
        /\ C12_CatalogOrder
        /\ \A e \in 1..Len(lines_dict) :
              lines_dict[e].defined =>
                  /\ Cardinality(C12_ResultsOf(lines_dict[e])) <= 1
                  /\ C12_MaximaAbove(lines_dict[e]) # {}
                        => C12_IsClosestOf(lines_dict[e], C12_MaximaAbove(lines_dict[e]))
                  /\ C12_MaximaAtLeast(lines_dict[e]) = {}
                        => C12_ResultsOf(lines_dict[e]) = {}

\* C12 amended: a catalog entry with a defined rest wavelength yields at
\* most one detected line; exactly one when its window holds a local
\* maximum with prominence of at least 0.5, and its observed wavelength then
\* is that of the maximum nearest to the rest wavelength among the maxima
\* with prominence of at least 0.5; none when the window holds no such
\* maximum; the detected lines are in catalog order.
C12_ClosestAtLeast ==
    dpc = "done" =>
        /\ C12_CatalogOrder
        /\ \A e \in 1..Len(lines_dict) :
              lines_dict[e].defined =>
                  /\ Cardinality(C12_ResultsOf(lines_dict[e])) <= 1
                  /\ C12_MaximaAtLeast(lines_dict[e]) # {}
                        => C12_IsClosestOf(lines_dict[e], C12_MaximaAtLeast(lines_dict[e]))
                  /\ C12_MaximaAtLeast(lines_dict[e]) = {}
                        => C12_ResultsOf(lines_dict[e]) = {}

\* two lines are detected, and the first entry has two prominent maxima in
\* its window of which the lower one, nearer to the rest wavelength, is kept
C12_Witness ==
    /\ dpc = "done"
    /\ Len(results) = 2
    /\ Cardinality(C12_MaximaAtLeast(lines_dict[1])) >= 2
    /\ \E q \in C12_MaximaAtLeast(lines_dict[1]) :
          C12_WindowFlux(lines_dict[1])[q] > results[1].peak_flux

----------------------------------------------------------------------------
(* Properties of filter_and_prepare_linelist *)

C11_InRange(line) ==
    wavelength_range[1] <= line.observed_wavelength
    /\ line.observed_wavelength <= wavelength_range[2]

\* the fluxes of the two side windows of a line
C11_Left(line) ==
    LET edge == line.observed_wavelength - 2 * line.sigma_max
    IN SelectSeq(continuum_spec0, LAMBDA smp : smp[1] <= edge /\ smp[1] >= edge - window_width)

C11_Right(line) ==
    LET edge == line.observed_wavelength + 2 * line.sigma_max
    IN SelectSeq(continuum_spec0, LAMBDA smp : smp[1] >= edge /\ smp[1] <= edge + window_width)

C11_Fluxes(w) == [j \in 1..Len(w) |-> w[j][2]]

\* local_std is a number (no side window is empty), and it is 0
C11_StdDefined(line) == Len(C11_Left(line)) > 0 /\ Len(C11_Right(line)) > 0
C11_StdZero(line) ==
    /\ C11_StdDefined(line)
    /\ VarN2(C11_Fluxes(C11_Left(line))) = 0
    /\ VarN2(C11_Fluxes(C11_Right(line))) = 0

\* (peak_flux - local_mean) / local_std >= noise_threshold, local_std > 0
C11_SnrReaches(line) ==
    SnrReaches(line.peak_flux, C11_Fluxes(C11_Left(line)), C11_Fluxes(C11_Right(line)), snr_ext)

C11_Names(lines) == [j \in 1..Len(lines) |-> lines[j].line]

\* C11 as stated: the lines returned are, in input order, those in
\* wavelength_range with SNR >= noise_threshold or peak_flux > 3 *
\* noise_threshold, where SNR = (peak_flux - local_mean) / local_std, and
\* SNR = noise_threshold when local_std is 0.
C11_PassAsStated(line) ==
    /\ C11_InRange(line)
    /\ \/ C11_StdZero(line)
       \/ C11_StdDefined(line) /\ ~C11_StdZero(line) /\ C11_SnrReaches(line)
       \/ line.peak_flux > 3 * snr_ext

C11_PassAmended(line) ==
    /\ C11_InRange(line)
    /\ \/ ~C11_StdDefined(line)
       \/ C11_StdZero(line)
       \/ C11_StdDefined(line) /\ ~C11_StdZero(line) /\ C11_SnrReaches(line)
       \/ line.peak_flux > 3 * snr_ext

----------------------------------------------------------------------------
(* Properties of init_setup *)

C13_Called(name) == \E i \in 1..Len(calls) : calls[i] = name

\* C13: init_setup calls detection and masking, the continuum fit, the
\* significance filter and the table build in this order and each at most
\* once, all four exactly once when it returns; the table is built only
\* with the parameters of a continuum fit that succeeded and holds them in
\* its last row; when the continuum fit fails the RuntimeError ends the
\* call after one fit attempt: no line is filtered and no table is built
\* or returned.
C13_StagesInOrder ==
    /\ Len(calls) <= Len(Stages)
    /\ \A i \in 1..Len(calls) : calls[i] = Stages[i]
    /\ stage = "returned" =>
          /\ calls = Stages
          /\ error = "none"
          /\ Len(dfparams) > 0
          /\ dfparams[Len(dfparams)] = ContinuumRow(continuum_pars)
    /\ C13_Called(Stages[3]) \/ C13_Called(Stages[4]) =>
          /\ C13_Called(Stages[2])
          /\ continuum_pars # None
    /\ (stage = "raised" /\ error = "RuntimeError") =>
          /\ calls = <<Stages[1], Stages[2]>>
          /\ continuum_pars = None
          /\ filtered_linelist = <<>>
          /\ dfparams = <<>>
    /\ stage \in {"idle", "analyze", "continuum", "filter", "table", "returned", "raised"}

\* the setup returned a table of a line and the continuum, after one
\* detected line was filtered out
C13_Witness ==
    /\ stage = "returned"
    /\ calls = Stages
    /\ Len(line_results) = 2
    /\ Len(filtered_linelist) = 1
    /\ Len(dfparams) = 2

====
